---- MODULE Spec2Model ----
(***************************************************************************)
(* binser decode.rs: Reader (a borrowed byte slice plus an offset), its    *)
(* read_bytes / read / read_at methods, and the Decode implementations of  *)
(* the numeric types and of the fixed-length arrays [T; N].                *)
(*                                                                         *)
(* Representation of decoded values.  TLC integers are 32 bits wide, so a  *)
(* decoded number is kept as a sign and a magnitude in 16-bit limbs, least *)
(* significant limb first: [neg |-> BOOLEAN, mag |-> <<l1, l2, ...>>]      *)
(* (a one-byte type has one limb below 256).  A float is kept as its IEEE  *)
(* bit pattern (neg = FALSE).  The value of a read is the sequence of the  *)
(* numbers it produced in order: one for a numeric type, the elements in   *)
(* index order for an array.                                               *)
(***************************************************************************)
EXTENDS Integers, Sequences, FiniteSets, TLC

VARIABLES
    data,     \* Reader.data: the borrowed byte slice (shared by all Readers)
    offset,   \* offset[r]: Reader.offset of Reader r
    last,     \* record of the most recent call: arguments and outcome
    noAt,     \* noAt[r]: offset of r in the run that skips r's read_at calls
    solo      \* solo[r]: offset of r in the run of r's calls alone

vars == <<data, offset, last, noAt, solo>>

----------------------------------------------------------------------------
(* Bounds of the model *)

MaxLen == 8          \* longest buffer
HeadLen == 1         \* bytes of a buffer drawn freely; the rest repeat one byte
MaxN == 2            \* longest array type drawn (the library generates 1..32)
MaxLen2 == 3         \* longest buffer in the two-Reader specification

ByteVals == {0, 1, 255}          \* byte values the head of a buffer is drawn from
FillVals == {0, 255}             \* byte values the rest of a buffer repeats
DestFill == {0, 170}             \* prior contents of a read_bytes destination
Readers == {1, 2}

MaxArrayLen == 32

----------------------------------------------------------------------------
(* Types implementing Decode *)

NumNames == {"i8", "u8", "i16", "u16", "i32", "u32", "i64", "u64", "f32", "f64"}

size_of(name) ==
    CASE name \in {"i8", "u8"} -> 1
      [] name \in {"i16", "u16"} -> 2
      [] name \in {"i32", "u32", "f32"} -> 4
      [] name \in {"i64", "u64", "f64"} -> 8

IsSigned(name) == name \in {"i8", "i16", "i32", "i64"}
IsFloat(name) == name \in {"f32", "f64"}

\* A type is its numeric base name and the array lengths around it, the
\* outermost first: u16 is [name |-> "u16", dims |-> <<>>], [u16; 3] is
\* [name |-> "u16", dims |-> <<3>>].
NumType(name) == [name |-> name, dims |-> <<>>]
ArrayType(T, n) == [name |-> T.name, dims |-> <<n>> \o T.dims]
ElemType(T) == [name |-> T.name, dims |-> Tail(T.dims)]
IsArray(T) == T.dims # <<>>
ArrayLen(T) == Head(T.dims)

ArrayLengths == 1..MaxArrayLen

NumTypes == {NumType(n) : n \in NumNames}
ArrayTypes == {ArrayType(T, n) : T \in NumTypes, n \in ArrayLengths \cap (1..MaxN)}
Types == NumTypes \cup ArrayTypes

----------------------------------------------------------------------------
(* Reader::read_bytes *)

Ok == "Ok"
Overflow == "Overflow"
Panic == "Panic"

\* read_bytes on a Reader over d at offset off with destination buf.
\* data.len() - offset is a usize subtraction: with offset > data.len() it
\* panics in a debug build and wraps in a release build, where the slice
\* index that follows panics; both builds end in a panic.
\* Mutant: the bounds check is <= instead of <.
read_bytes_strict(d, off, buf) ==
    IF off > Len(d)
    THEN [err |-> Panic, off |-> off, buf |-> buf]
    ELSE IF Len(d) - off <= Len(buf)
    THEN [err |-> Overflow, off |-> off, buf |-> buf]
    ELSE [err |-> Ok, off |-> off + Len(buf),
          buf |-> [i \in 1..Len(buf) |-> d[off + i]]]

\* Mutant: the copy comes before the check and copies what is there.
read_bytes_copy_first(d, off, buf) ==
    IF off > Len(d)
    THEN [err |-> Panic, off |-> off, buf |-> buf]
    ELSE IF Len(d) - off < Len(buf)
    THEN [err |-> Overflow, off |-> off,
          buf |-> [i \in 1..Len(buf) |-> IF off + i <= Len(d) THEN d[off + i] ELSE buf[i]]]
    ELSE [err |-> Ok, off |-> off + Len(buf),
          buf |-> [i \in 1..Len(buf) |-> d[off + i]]]

\* Mutant: a failed read consumes what is left of the buffer.
read_bytes_drain(d, off, buf) ==
    IF off > Len(d)
    THEN [err |-> Panic, off |-> off, buf |-> buf]
    ELSE IF Len(d) - off < Len(buf)
    THEN [err |-> Overflow, off |-> Len(d), buf |-> buf]
    ELSE [err |-> Ok, off |-> off + Len(buf),
          buf |-> [i \in 1..Len(buf) |-> d[off + i]]]

read_bytes(d, off, buf) ==
    IF off > Len(d)
    THEN [err |-> Panic, off |-> off, buf |-> buf]
    ELSE IF Len(d) - off < Len(buf)
    THEN [err |-> Overflow, off |-> off, buf |-> buf]
    ELSE [err |-> Ok, off |-> off + Len(buf),
          buf |-> [i \in 1..Len(buf) |-> d[off + i]]]

----------------------------------------------------------------------------
(* from_le_bytes *)

LimbBase(w) == IF w = 1 THEN 256 ELSE 65536
NLimbs(w) == (w + 1) \div 2

\* The unsigned little-endian number of the bytes, in limbs.
LeLimbs(bytes) ==
    [j \in 1..NLimbs(Len(bytes)) |->
        bytes[2 * j - 1] + (IF 2 * j <= Len(bytes) THEN 256 * bytes[2 * j] ELSE 0)]

RECURSIVE AddOne(_, _)
AddOne(limbs, base) ==
    IF limbs = <<>> THEN <<>>
    ELSE IF Head(limbs) = base - 1
         THEN <<0>> \o AddOne(Tail(limbs), base)
         ELSE <<Head(limbs) + 1>> \o Tail(limbs)

\* 2^(8w) - u for the w-byte number u: the magnitude of a negative
\* two's-complement value.
TwosNegate(limbs, base) ==
    AddOne([j \in 1..Len(limbs) |-> base - 1 - limbs[j]], base)

\* Mutant: the bytes are taken most significant first.
from_be_bytes(name, bytes) ==
    LET rev == [i \in 1..Len(bytes) |-> bytes[Len(bytes) + 1 - i]]
    IN  IF IsSigned(name) /\ rev[Len(rev)] >= 128
        THEN [neg |-> TRUE, mag |-> TwosNegate(LeLimbs(rev), LimbBase(Len(rev)))]
        ELSE [neg |-> FALSE, mag |-> LeLimbs(rev)]

from_le_bytes(name, bytes) ==
    IF IsSigned(name) /\ bytes[Len(bytes)] >= 128
    THEN [neg |-> TRUE, mag |-> TwosNegate(LeLimbs(bytes), LimbBase(Len(bytes)))]
    ELSE [neg |-> FALSE, mag |-> LeLimbs(bytes)]

----------------------------------------------------------------------------
(* Decode implementations and Reader::read *)

\* impl Decode for a numeric type
decode_number(d, off, name) ==
    LET bytes == [i \in 1..size_of(name) |-> 0]
        rb == read_bytes(d, off, bytes)
    IN  IF rb.err # Ok
        THEN [err |-> rb.err, val |-> <<>>, off |-> rb.off]
        ELSE [err |-> Ok, val |-> <<from_le_bytes(name, rb.buf)>>, off |-> rb.off]

RECURSIVE decode(_, _, _)
RECURSIVE decode_array_from(_, _, _, _, _)
RECURSIVE decode_array_reversed(_, _, _, _, _)
RECURSIVE decode_array_rewinding(_, _, _, _, _)

\* Mutant: the slots are filled from the last to the first.
decode_array_reversed(d, off, T, i, acc) ==
    IF i > ArrayLen(T)
    THEN [err |-> Ok, val |-> acc, off |-> off]
    ELSE LET e == decode(d, off, ElemType(T))
         IN  IF e.err # Ok
             THEN [err |-> e.err, val |-> <<>>, off |-> e.off]
             ELSE decode_array_reversed(d, e.off, T, i + 1, e.val \o acc)

\* Mutant: a failed element read puts the offset back where the array began.
decode_array_rewinding(d, off, T, i, acc) ==
    IF i > ArrayLen(T)
    THEN [err |-> Ok, val |-> acc, off |-> off]
    ELSE LET e == decode(d, off, ElemType(T))
         IN  IF e.err # Ok
             THEN [err |-> e.err, val |-> <<>>,
                   off |-> off - (i - 1) * size_of(T.name)]
             ELSE decode_array_rewinding(d, e.off, T, i + 1, acc \o e.val)

\* The loop of impl Decode for [T; N], from slot i on; acc holds the
\* values of the slots already read.
decode_array_from(d, off, T, i, acc) ==
    IF i > ArrayLen(T)
    THEN [err |-> Ok, val |-> acc, off |-> off]
    ELSE LET e == decode(d, off, ElemType(T))
         IN  IF e.err # Ok
             THEN [err |-> e.err, val |-> <<>>, off |-> e.off]
             ELSE decode_array_from(d, e.off, T, i + 1, acc \o e.val)

decode_array(d, off, T) == decode_array_from(d, off, T, 1, <<>>)

\* T::decode(reader), dispatched on the type
decode(d, off, T) ==
    IF IsArray(T) THEN decode_array(d, off, T) ELSE decode_number(d, off, T.name)

\* Reader::read<T>
read(d, off, T) == decode(d, off, T)

\* Reader::read_at<T>(k) on a Reader at offset self: the result, the
\* offset of self afterwards, and the transient Reader's final offset
\* (made |-> FALSE when none was created).
\* Mutant: the check of the absolute offset is missing.
read_at_unchecked(d, self, T, k) ==
    LET r == read(d, k, T)
    IN  [err |-> r.err, val |-> r.val, self |-> self, made |-> TRUE, tmp |-> r.off]

\* Mutant: the read is made on the Reader itself, moved to k.
read_at_on_self(d, self, T, k) ==
    IF k >= Len(d)
    THEN [err |-> Overflow, val |-> <<>>, self |-> self, made |-> FALSE, tmp |-> 0]
    ELSE LET r == read(d, k, T)
         IN  [err |-> r.err, val |-> r.val, self |-> r.off, made |-> FALSE, tmp |-> 0]

\* Mutant: k is taken relative to the Reader's own offset.
read_at_relative(d, self, T, k) ==
    IF k >= Len(d)
    THEN [err |-> Overflow, val |-> <<>>, self |-> self, made |-> FALSE, tmp |-> 0]
    ELSE LET r == read(d, self + k, T)
         IN  [err |-> r.err, val |-> r.val, self |-> self, made |-> TRUE, tmp |-> r.off]

read_at(d, self, T, k) ==
    IF k >= Len(d)
    THEN [err |-> Overflow, val |-> <<>>, self |-> self, made |-> FALSE, tmp |-> 0]
    ELSE LET r == read(d, k, T)
         IN  [err |-> r.err, val |-> r.val, self |-> self, made |-> TRUE, tmp |-> r.off]

----------------------------------------------------------------------------
(* State machine *)

\* Buffers of length up to n: HeadLen bytes drawn freely, then one byte
\* repeated.
Buffers(n) ==
    {[i \in 1..m |-> IF i <= HeadLen THEN h[i] ELSE f] :
        h \in [1..HeadLen -> ByteVals], f \in FillVals, m \in 0..n}

NoCall == [op |-> "none", r |-> 1, T |-> NumType("u8"), k |-> 0, pre |-> 0,
           err |-> Ok, val |-> <<>>, destBefore |-> <<>>, destAfter |-> <<>>,
           made |-> FALSE, tmp |-> 0, errNoAt |-> Ok, valNoAt |-> <<>>,
           errSolo |-> Ok, valSolo |-> <<>>]

\* Reader::new for every Reader, over one buffer of length up to n
InitOver(n) ==
    /\ data \in Buffers(n)
    /\ offset = [r \in Readers |-> 0]
    /\ noAt = [r \in Readers |-> 0]
    /\ solo = [r \in Readers |-> 0]
    /\ last = NoCall

Init == InitOver(MaxLen)

\* Mutant: the Readers over one buffer share one cursor.
SetOffsetShared(offs, r, n) == [x \in DOMAIN offs |-> n]

\* self.offset of Reader r becomes n; each Reader has its own offset field
SetOffset(offs, r, n) == [offs EXCEPT ![r] = n]

\* reader.read_bytes(&mut dest) on Reader r
ReadBytes(r, dest) ==
    LET rb == read_bytes(data, offset[r], dest)
        sa == read_bytes(data, noAt[r], dest)
        so == read_bytes(data, solo[r], dest)
    IN  /\ last.op = "none"
        /\ offset' = SetOffset(offset, r, rb.off)
        /\ noAt' = [noAt EXCEPT ![r] = sa.off]
        /\ solo' = [solo EXCEPT ![r] = so.off]
        /\ last' = [NoCall EXCEPT !.op = "read_bytes", !.r = r, !.k = Len(dest),
                                  !.pre = offset[r], !.err = rb.err,
                                  !.destBefore = dest, !.destAfter = rb.buf,
                                  !.errNoAt = sa.err, !.valNoAt = sa.buf,
                                  !.errSolo = so.err, !.valSolo = so.buf]
        /\ UNCHANGED data

\* reader.read::<T>() on Reader r
Read(r, T) ==
    LET rd == read(data, offset[r], T)
        sa == read(data, noAt[r], T)
        so == read(data, solo[r], T)
    IN  /\ last.op = "none"
        /\ offset' = SetOffset(offset, r, rd.off)
        /\ noAt' = [noAt EXCEPT ![r] = sa.off]
        /\ solo' = [solo EXCEPT ![r] = so.off]
        /\ last' = [NoCall EXCEPT !.op = "read", !.r = r, !.T = T,
                                  !.pre = offset[r], !.err = rd.err, !.val = rd.val,
                                  !.errNoAt = sa.err, !.valNoAt = sa.val,
                                  !.errSolo = so.err, !.valSolo = so.val]
        /\ UNCHANGED data

\* reader.read_at::<T>(k) on Reader r
ReadAt(r, T, k) ==
    LET ra == read_at(data, offset[r], T, k)
        so == read_at(data, solo[r], T, k)
    IN  /\ last.op = "none"
        /\ offset' = SetOffset(offset, r, ra.self)
        /\ solo' = [solo EXCEPT ![r] = so.self]
        /\ last' = [NoCall EXCEPT !.op = "read_at", !.r = r, !.T = T, !.k = k,
                                  !.pre = offset[r], !.err = ra.err, !.val = ra.val,
                                  !.made = ra.made, !.tmp = ra.tmp,
                                  !.errSolo = so.err, !.valSolo = so.val]
        /\ UNCHANGED <<data, noAt>>

\* The caller takes the result of the call and goes on.
TakeResult ==
    /\ last.op # "none"
    /\ last' = NoCall
    /\ UNCHANGED <<data, offset, noAt, solo>>

Dests(n) == {[i \in 1..m |-> f] : m \in 0..n, f \in DestFill}

\* One Reader in use.  Destination lengths and absolute offsets run to one
\* past the buffer's length; larger ones behave as that one does.
Next ==
    \/ \E dest \in Dests(Len(data) + 1) : ReadBytes(1, dest)
    \/ \E T \in Types : Read(1, T)
    \/ \E T \in Types, k \in 0..(Len(data) + 1) : ReadAt(1, T, k)
    \/ TakeResult

Spec == Init /\ [][Next]_vars

\* Two Readers over the same buffer, their calls interleaved in any order.
Types2 ==
    {NumType("u8"), NumType("i16"), NumType("u32")}
        \cup {ArrayType(NumType("u8"), n) : n \in ArrayLengths \cap (1..MaxN)}

InitTwo == InitOver(MaxLen2)

NextTwo ==
    \/ \E r \in Readers, dest \in Dests(Len(data) + 1) : ReadBytes(r, dest)
    \/ \E r \in Readers, T \in Types2 : Read(r, T)
    \/ \E r \in Readers, T \in Types2, k \in 0..(Len(data) + 1) : ReadAt(r, T, k)
    \/ TakeResult

SpecTwo == InitTwo /\ [][NextTwo]_vars

----------------------------------------------------------------------------
(* Properties *)

Remaining == Len(data) - last.pre

\* C1: a read_bytes whose destination is no longer than what remains
\* (K <= L - o, K = 0 at o = L included) succeeds, leaves buffer[o .. o+K)
\* in the destination in order, and moves the offset to exactly o + K.
C1_ReadBytesSucceeds ==
    (last.op = "read_bytes" /\ last.k <= Remaining) =>
        /\ last.err = Ok
        /\ Len(last.destAfter) = last.k
        /\ \A i \in 1..last.k : last.destAfter[i] = data[last.pre + i]
        /\ offset[last.r] = last.pre + last.k

C1_Witness ==
    /\ last.op = "read_bytes" /\ last.err = Ok
    /\ last.pre >= 1 /\ last.k >= 2 /\ last.k = Remaining
    /\ last.destAfter # last.destBefore

C1_WitnessOrder ==
    /\ last.op = "read_bytes" /\ last.err = Ok /\ last.k >= 2
    /\ last.destAfter[1] # last.destAfter[2]

C1_WitnessEmptyAtEnd ==
    /\ last.op = "read_bytes" /\ last.err = Ok
    /\ last.k = 0 /\ last.pre = Len(data) /\ Len(data) > 0

\* C2: a read_bytes whose destination is longer than what remains
\* (K > L - o) returns Overflow, leaves the offset at o and leaves every
\* byte of the destination as it was; every numeric read and every
\* read_bytes of at least one byte on a Reader over an empty buffer
\* returns Overflow.
C2_ReadBytesOverflows ==
    /\ (last.op = "read_bytes" /\ last.k > Remaining) =>
            /\ last.err = Overflow
            /\ offset[last.r] = last.pre
            /\ last.destAfter = last.destBefore
    /\ (Len(data) = 0 /\ last.op = "read" /\ ~IsArray(last.T)) =>
            last.err = Overflow
    /\ (Len(data) = 0 /\ last.op = "read_bytes" /\ last.k > 0) =>
            last.err = Overflow

C2_Witness ==
    /\ last.op = "read_bytes" /\ last.err = Overflow
    /\ last.pre >= 1 /\ Remaining >= 1 /\ last.k > Remaining
    /\ last.k <= Len(data)

C2_WitnessEmpty ==
    Len(data) = 0 /\ last.op = "read" /\ last.T = NumType("u8") /\ last.err = Overflow

\* C3: every Reader's offset, and the final offset of the transient Reader
\* of a read_at, lies in 0 .. len(buffer); no call ends in the panic of an
\* underflowing len(buffer) - offset; and no step changes the buffer.
OffsetsInBounds ==
    /\ \A r \in Readers : offset[r] \in 0..Len(data)
    /\ last.made => last.tmp \in 0..Len(data)
    /\ last.err # Panic

C3_OffsetInvariant == [](OffsetsInBounds) /\ [][data' = data]_vars

C3_Witness ==
    /\ last.op = "read_at" /\ last.made /\ last.tmp = Len(data)
    /\ last.k >= 1 /\ last.err = Ok /\ offset[last.r] >= 1
    /\ offset[last.r] < last.k

\* What the last call handed back: the destination of a read_bytes, the
\* value of a read or read_at.
Out == IF last.op = "read_bytes" THEN last.destAfter ELSE last.val

\* C4: read_at leaves the offset of the Reader it is called on as it was,
\* whether it succeeds or fails, and every later read or read_bytes on that
\* Reader returns what it returns in the run without the read_at calls.
C4_ReadAtKeepsOffset ==
    /\ last.op = "read_at" => offset[last.r] = last.pre
    /\ \A r \in Readers : offset[r] = noAt[r]
    /\ last.op \in {"read", "read_bytes"} =>
            (last.err = last.errNoAt /\ Out = last.valNoAt)

C4_Witness ==
    /\ last.op = "read_at" /\ last.err = Ok /\ last.made
    /\ last.pre >= 1 /\ last.k # last.pre /\ last.tmp # last.pre
    /\ offset[last.r] = last.pre

C4_WitnessFailed ==
    /\ last.op = "read_at" /\ last.err = Overflow /\ last.made
    /\ last.pre >= 1 /\ offset[last.r] = last.pre

\* Bytes a value of type T takes.
WidthOf(T) ==
    LET RECURSIVE Prod(_)
        Prod(s) == IF s = <<>> THEN 1 ELSE Head(s) * Prod(Tail(s))
    IN  size_of(T.name) * Prod(T.dims)

\* C5: the result of read_at<T>(k) is Overflow whenever k >= L; for k < L
\* it is the result of read<T> on a Reader over the same buffer with its
\* cursor at k, whatever the offset of the Reader read_at is called on; so
\* at k = L - 1 with T wider than one byte it is Overflow.
C5_ReadAtResult ==
    last.op = "read_at" =>
        /\ last.k >= Len(data) => (last.err = Overflow /\ last.val = <<>>)
        /\ last.k < Len(data) =>
                LET x == read(data, last.k, last.T)
                IN  last.err = x.err /\ last.val = x.val
        /\ (last.k = Len(data) - 1 /\ WidthOf(last.T) >= 2) => last.err = Overflow

C5_Witness ==
    /\ last.op = "read_at" /\ last.err = Ok
    /\ last.pre >= 1 /\ last.k >= 1 /\ last.k # last.pre
    /\ WidthOf(last.T) >= 2

C5_WitnessAtEnd ==
    /\ last.op = "read_at" /\ last.k = Len(data) /\ Len(data) >= 1
    /\ last.err = Overflow /\ ~last.made

C5_WitnessLastByte ==
    /\ last.op = "read_at" /\ last.k = Len(data) - 1 /\ last.pre >= 1
    /\ WidthOf(last.T) >= 2 /\ last.err = Overflow /\ last.made

----------------------------------------------------------------------------
(* Little-endian values, stated on the digits of the result *)

\* The base-256 digit i (from 0) of a magnitude in limbs.
Digit(mag, i) == (mag[(i \div 2) + 1] \div (IF i % 2 = 0 THEN 1 ELSE 256)) % 256

WellFormed(v, w) ==
    /\ Len(v.mag) = NLimbs(w)
    /\ \A j \in 1..Len(v.mag) : v.mag[j] \in 0..(LimbBase(w) - 1)

\* mag + (the unsigned number of the bytes) = 256^w, digit by digit.
RECURSIVE SumsToPower(_, _, _, _)
SumsToPower(mag, bytes, i, carry) ==
    IF i = Len(bytes)
    THEN carry = 1
    ELSE LET t == Digit(mag, i) + bytes[i + 1] + carry
         IN  t % 256 = 0 /\ SumsToPower(mag, bytes, i + 1, t \div 256)

\* v is the little-endian number of the bytes: for a non-negative value its
\* digits are the bytes; for a negative one (signed, top bit set) its
\* magnitude is 256^w minus the unsigned number.
IsLeValue(v, bytes, signed) ==
    /\ WellFormed(v, Len(bytes))
    /\ v.neg = (signed /\ bytes[Len(bytes)] >= 128)
    /\ ~v.neg => \A i \in 0..(Len(bytes) - 1) : Digit(v.mag, i) = bytes[i + 1]
    /\ v.neg => SumsToPower(v.mag, bytes, 0, 0)

RECURSIVE Pow256(_)
Pow256(n) == IF n = 0 THEN 1 ELSE 256 * Pow256(n - 1)

\* For one and two bytes, the same as plain integers.
IntOf(v) ==
    LET m == v.mag[1]
    IN  IF v.neg THEN 0 - m ELSE m

RECURSIVE LeSum(_, _)
LeSum(bytes, i) ==
    IF i > Len(bytes) THEN 0 ELSE bytes[i] * Pow256(i - 1) + LeSum(bytes, i + 1)

LeInt(bytes, signed) ==
    LET u == LeSum(bytes, 1)
    IN  IF signed /\ 2 * u >= Pow256(Len(bytes)) THEN u - Pow256(Len(bytes)) ELSE u

BytesAt(o, w) == [i \in 1..w |-> data[o + i]]

\* C6: a read of an integer type of width w (1, 2, 4 or 8 bytes, signed or
\* unsigned) with at least w bytes remaining at offset o succeeds, moves the
\* offset to o + w and returns the little-endian number of buffer[o .. o+w),
\* as a two's-complement value for a signed type.
C6_LittleEndianIntegers ==
    (/\ last.op = "read" /\ ~IsArray(last.T) /\ ~IsFloat(last.T.name)
     /\ Remaining >= size_of(last.T.name)) =>
        LET w == size_of(last.T.name)
            bytes == BytesAt(last.pre, w)
        IN  /\ w \in {1, 2, 4, 8}
            /\ last.err = Ok
            /\ offset[last.r] = last.pre + w
            /\ Len(last.val) = 1
            /\ IsLeValue(last.val[1], bytes, IsSigned(last.T.name))
            /\ w <= 2 => IntOf(last.val[1]) = LeInt(bytes, IsSigned(last.T.name))

C6_Witness ==
    /\ last.op = "read" /\ last.T = NumType("i64") /\ last.err = Ok
    /\ last.pre = 0 /\ data[1] = 1 /\ data[8] = 255
    /\ last.val[1] = [neg |-> TRUE, mag |-> <<255, 0, 0, 0>>]

C6_WitnessU32One ==
    /\ last.op = "read" /\ last.T = NumType("u32") /\ last.pre = 0
    /\ data = <<1, 0, 0, 0>> /\ last.val = <<[neg |-> FALSE, mag |-> <<1, 0>>]>>

C6_WitnessI16MinusOne ==
    /\ last.op = "read" /\ last.T = NumType("i16") /\ last.pre = 0
    /\ data = <<255, 255>> /\ IntOf(last.val[1]) = 0 - 1

----------------------------------------------------------------------------
(* Arrays *)

NumericArray == last.op = "read" /\ Len(last.T.dims) = 1

\* C7: a read of [T; N] (T numeric of width w) with at least N * w bytes
\* remaining at offset o succeeds, moves the offset to o + N * w and returns
\* N elements, element i being the result of read<T> at o + i * w: the
\* elements lie back to back with nothing before or between them.
C7_ArrayDecodes ==
    (NumericArray /\ Remaining >= ArrayLen(last.T) * size_of(last.T.name)) =>
        LET w == size_of(last.T.name)
            n == ArrayLen(last.T)
        IN  /\ last.err = Ok
            /\ offset[last.r] = last.pre + n * w
            /\ Len(last.val) = n
            /\ \A i \in 0..(n - 1) :
                    LET e == read(data, last.pre + i * w, ElemType(last.T))
                    IN  e.err = Ok /\ last.val[i + 1] = e.val[1]

C7_Witness ==
    /\ NumericArray /\ last.err = Ok /\ ArrayLen(last.T) >= 2
    /\ size_of(last.T.name) >= 2
    /\ last.val[1] # last.val[2]

\* C8: a read of [T; N] (T numeric of width w) with r < N * w bytes
\* remaining at offset o returns Overflow and leaves the offset at
\* o + floor(r / w) * w, past the elements read before the one that failed;
\* with r = N * w - 1 that is o + (N - 1) * w.
C8_ArrayOverflows ==
    (NumericArray /\ Remaining < ArrayLen(last.T) * size_of(last.T.name)) =>
        LET w == size_of(last.T.name)
            n == ArrayLen(last.T)
        IN  /\ last.err = Overflow
            /\ offset[last.r] = last.pre + (Remaining \div w) * w
            /\ Remaining = n * w - 1 => offset[last.r] = last.pre + (n - 1) * w

C8_Witness ==
    /\ NumericArray /\ last.err = Overflow /\ ArrayLen(last.T) >= 2
    /\ size_of(last.T.name) >= 2 /\ last.pre >= 1
    /\ Remaining = ArrayLen(last.T) * size_of(last.T.name) - 1
    /\ offset[last.r] > last.pre

\* C9 as stated: whenever read<T> returns Overflow, for a numeric type or
\* an array, the offset is what it was before the call.
C9_NoPartialAdvance ==
    (last.op = "read" /\ last.err = Overflow) => offset[last.r] = last.pre

\* C9 amended: whenever read<T> returns Overflow, a numeric T leaves the
\* offset as it was; an array [T; N] of numeric T leaves it as it was
\* exactly when fewer than w bytes remained (the first element failed), and
\* otherwise leaves it advanced by a whole number of elements.
C9_FailureOffset ==
    (last.op = "read" /\ last.err = Overflow) =>
        /\ ~IsArray(last.T) => offset[last.r] = last.pre
        /\ NumericArray =>
                /\ (offset[last.r] = last.pre) = (Remaining < size_of(last.T.name))
                /\ offset[last.r] >= last.pre
                /\ (offset[last.r] - last.pre) % size_of(last.T.name) = 0
                /\ offset[last.r] - last.pre < ArrayLen(last.T) * size_of(last.T.name)

C9_Witness ==
    /\ last.op = "read" /\ last.err = Overflow /\ ~IsArray(last.T)
    /\ last.pre >= 1 /\ Remaining >= 1 /\ offset[last.r] = last.pre

C9_WitnessArray ==
    /\ NumericArray /\ last.err = Overflow /\ offset[last.r] > last.pre

----------------------------------------------------------------------------
(* Two Readers over one buffer *)

SoloAgrees ==
    /\ \A r \in Readers : offset[r] = solo[r]
    /\ last.op # "none" => (last.err = last.errSolo /\ Out = last.valSolo)

OthersKept ==
    /\ data' = data
    /\ \A r \in Readers : (last'.op # "none" /\ last'.r # r) => offset'[r] = offset[r]

\* C10: with two Readers over the same buffer and their calls interleaved
\* in any order, each call returns, and leaves its Reader's offset at, what
\* it does in the run of that Reader's calls alone; a call on one Reader
\* changes neither the other Reader's offset nor the buffer.
C10_ReadersIndependent == [](SoloAgrees) /\ [][OthersKept]_vars

C10_Witness ==
    /\ last.op = "read" /\ last.r = 2 /\ last.err = Ok
    /\ offset[1] >= 1 /\ offset[2] >= 1 /\ offset[1] # offset[2]
    /\ last.pre # offset[1] /\ last.pre >= 1

====
